---- MODULE Spec2Model ----
(***************************************************************************)
(* llama4micro, src/main.cc: the application task app_main, the model      *)
(* lifecycle (LoadLlamaModel, TellStory) and the button interrupt.         *)
(*                                                                         *)
(* One FreeRTOS task runs app_main; the button callback runs in interrupt  *)
(* context and may preempt the task between any two of its statements.     *)
(* Each statement of app_main / LoadLlamaModel is one action; the callback *)
(* is one action (an ISR runs to completion).  vTaskSuspend(nullptr) puts  *)
(* the calling task on the suspended list; xTaskResumeFromISR(handle)      *)
(* makes the task ready only if it is on the suspended list at that        *)
(* moment and is a no-op otherwise (the kernel keeps no pending-resume     *)
(* mark).  generate() is opaque: it starts, runs and returns, and never    *)
(* suspends the task.                                                      *)
(***************************************************************************)
EXTENDS Integers, Sequences, FiniteSets

\* ---------------------------------------------------------------- bounds
\* Largest model maximum sequence length drawn besides the shipped one.
MaxSeqLen == 2
\* Configured step budgets go down to -MaxNegSteps.
MaxNegSteps == 1
\* Largest quantisation group size a model header may carry.
MaxGroupSize == 1
\* Number of accepted button edges followed in one run.
MaxEdges == 4

\* ------------------------------------------------------ program constants
\* const int kSteps = 256;
kSteps == 256

\* ------------------------------------------------------------ input sets
\* transformer.config.seq_len as read from the model header.
SeqLens == (1..MaxSeqLen) \cup {kSteps}
\* The configured value of the global `steps` (kSteps as shipped).
Budgets == ((0 - MaxNegSteps)..(MaxSeqLen + 1)) \cup {kSteps, 1000}
\* The model artifact: missing/malformed, or a header with its fields.
MissingModel == [ok |-> FALSE, seq_len |-> 0, group_size |-> 0]
ModelFiles ==
    {MissingModel} \cup
    [ok : {TRUE}, seq_len : SeqLens, group_size : 1..MaxGroupSize]

VARIABLES
    pc,                     \* position of the app_main task
    suspended,              \* the task is on the scheduler's suspended list
    isrRegistered,          \* GpioConfigureInterrupt has installed the callback
    ledStatus,              \* Led::kStatus ("busy")
    ledUser,                \* Led::kUser ("ready")
    cfgSteps,               \* the configured budget: the initialiser of steps
    steps,                  \* int steps
    seq_len,                \* transformer.config.seq_len
    group_size,             \* int group_size
    transformer,            \* Transformer transformer: "unbuilt" | "built"
    tokenizer,              \* Tokenizer tokenizer
    sampler,                \* Sampler sampler
    llama_model_buffer,     \* "null" | "allocated"
    llama_tokenizer_buffer, \* "null" | "allocated"
    modelFile,              \* the artifact at kLlamaModelPath
    tokenizerOk,            \* the artifact at kLlamaTokenizerPath is readable
    fatalReported,          \* a fatal diagnostic has been printed
    builds,                 \* history: calls of each build_* routine
    genActive,              \* invocations of generate in progress
    nGenCalls,              \* history: calls of generate
    genArgs,                \* history: the step counts passed to generate
    nGen,                   \* history: returns from vTaskSuspend (cycles)
    edgeLog,                \* history: one record per accepted edge
    acquired,               \* history: the resources LoadLlamaModel acquired
    released,               \* history: the resources UnloadLlamaModel released
    clampedIn               \* history: the cycle counts at which the clamp ran

engine ==
    <<transformer, tokenizer, sampler, llama_model_buffer,
      llama_tokenizer_buffer, steps, seq_len, group_size>>
leds == <<ledStatus, ledUser>>
files == <<modelFile, tokenizerOk, cfgSteps>>
history == <<builds, nGenCalls, genArgs, nGen, edgeLog>>
audit == <<acquired, released, clampedIn>>
vars ==
    <<pc, suspended, isrRegistered, leds, engine, files, fatalReported,
      genActive, history, audit>>

\* History counters stop counting beyond what MaxEdges edges can cause.
Bump(n) == IF n <= MaxEdges THEN n + 1 ELSE n

\* The controller phase at a task position.
InitPcs ==
    {"config", "init_led_status", "init_led_user", "load_transformer",
     "clamp_steps", "load_tokenizer", "load_sampler"}
LoadPcs == {"load_transformer", "clamp_steps", "load_tokenizer", "load_sampler"}
IdlePcs == {"idle_led_status", "idle_led_user", "suspend"}
UnloadPcs ==
    {"free_sampler", "free_tokenizer", "free_transformer",
     "delete_tokenizer_buffer", "delete_model_buffer", "returned"}

Phase ==
    IF pc = "halted" THEN "Halted"
    ELSE IF pc \in UnloadPcs THEN "Shutdown"
    ELSE IF pc \in InitPcs THEN "Initializing"
    ELSE IF pc \in IdlePcs THEN "Idle"
    ELSE IF suspended THEN "Parked"
    ELSE "Generating"

\* (mutant) the zero test is missing from the clamp.
ResolveSteps_NoZeroTest(r, M) == IF r > M THEN M ELSE r

\* if (steps == 0 || steps > transformer.config.seq_len) steps = seq_len;
ResolveSteps(r, M) == IF r = 0 \/ r > M THEN M ELSE r

\* Outcome of the engine's build routines on a readable / unreadable
\* artifact: built, or a fatal diagnostic and a halt.
build_transformer(file) == IF file.ok THEN "built" ELSE "fatal"
build_tokenizer(ok) == IF ok THEN "built" ELSE "fatal"

\* The engine is Loaded: every structure built, both buffers held.
Loaded ==
    /\ transformer = "built" /\ tokenizer = "built" /\ sampler = "built"
    /\ llama_model_buffer = "allocated"
    /\ llama_tokenizer_buffer = "allocated"

Init ==
    /\ pc = "config"
    /\ suspended = FALSE
    /\ isrRegistered = FALSE
    /\ ledStatus \in BOOLEAN   \* the indicators are as the boot code left them
    /\ ledUser \in BOOLEAN
    /\ cfgSteps \in Budgets
    /\ steps = cfgSteps
    /\ seq_len = 0
    /\ group_size = 0
    /\ transformer = "unbuilt"
    /\ tokenizer = "unbuilt"
    /\ sampler = "unbuilt"
    /\ llama_model_buffer = "null"
    /\ llama_tokenizer_buffer = "null"
    /\ modelFile \in ModelFiles
    /\ tokenizerOk \in BOOLEAN
    /\ fatalReported = FALSE
    /\ builds = [c \in {"transformer", "tokenizer", "sampler"} |-> 0]
    /\ genActive = 0
    /\ nGenCalls = 0
    /\ genArgs = {}
    /\ nGen = 0
    /\ edgeLog = <<>>
    /\ acquired = <<>>
    /\ released = <<>>
    /\ clampedIn = {}

Running(p) == pc = p /\ ~suspended

\* GpioConfigureInterrupt(kUserButton, kIntModeFalling, [handle]{...}, ...)
ConfigureInterrupt ==
    /\ Running("config")
    /\ isrRegistered' = TRUE
    /\ pc' = "init_led_status"
    /\ UNCHANGED <<audit,
                   suspended, leds, engine, files, fatalReported, genActive,
                   history>>

\* (mutant) the busy indicator is not asserted before the load.
InitLedStatus_Off ==
    /\ Running("init_led_status")
    /\ ledStatus' = FALSE
    /\ pc' = "init_led_user"
    /\ UNCHANGED <<audit, suspended, isrRegistered, ledUser, engine, files,
                   fatalReported, genActive, history>>

\* LedSet(Led::kStatus, true);  (before the load)
InitLedStatus ==
    /\ Running("init_led_status")
    /\ ledStatus' = TRUE
    /\ pc' = "init_led_user"
    /\ UNCHANGED <<audit, suspended, isrRegistered, ledUser, engine, files,
                   fatalReported, genActive, history>>

\* (mutant) the call of LoadLlamaModel is missing: the loop is entered
\* with nothing loaded.
InitLedUser_SkipsLoad ==
    /\ Running("init_led_user")
    /\ ledUser' = FALSE
    /\ pc' = "idle_led_status"
    /\ UNCHANGED <<audit, suspended, isrRegistered, ledStatus, engine, files,
                   fatalReported, genActive, history>>

\* LedSet(Led::kUser, false);  (before the load)
InitLedUser ==
    /\ Running("init_led_user")
    /\ ledUser' = FALSE
    /\ pc' = "load_transformer"
    /\ UNCHANGED <<audit, suspended, isrRegistered, ledStatus, engine, files,
                   fatalReported, genActive, history>>

\* llama_model_buffer = new ...; build_transformer(&transformer, ...);
LoadTransformer ==
    /\ Running("load_transformer")
    /\ llama_model_buffer' = "allocated"
    /\ builds' = [builds EXCEPT !["transformer"] = Bump(@)]
    /\ IF build_transformer(modelFile) = "built"
       THEN /\ transformer' = "built"
            /\ acquired' = acquired \o <<"model_buffer", "transformer">>
            /\ seq_len' = modelFile.seq_len
            /\ group_size' = modelFile.group_size
            /\ pc' = "clamp_steps"
            /\ UNCHANGED fatalReported
       ELSE /\ fatalReported' = TRUE
            /\ acquired' = Append(acquired, "model_buffer")
            /\ pc' = "halted"
            /\ UNCHANGED <<transformer, seq_len, group_size>>
    /\ UNCHANGED <<released, clampedIn,
                   suspended, isrRegistered, leds, tokenizer, sampler,
                   llama_tokenizer_buffer, steps, files, genActive,
                   nGenCalls, genArgs, nGen, edgeLog>>

\* if (steps == 0 || steps > seq_len) { steps = seq_len; }
ClampSteps ==
    /\ Running("clamp_steps")
    /\ steps' = ResolveSteps(steps, seq_len)
    /\ clampedIn' = clampedIn \cup {nGen}
    /\ pc' = "load_tokenizer"
    /\ UNCHANGED <<acquired, released,
                   suspended, isrRegistered, leds, transformer, tokenizer,
                   sampler, llama_model_buffer, llama_tokenizer_buffer,
                   seq_len, group_size, files, fatalReported, genActive,
                   history>>

\* (mutant) the tokenizer is taken as built whatever build_tokenizer met.
LoadTokenizer_IgnoresFailure ==
    /\ Running("load_tokenizer")
    /\ llama_tokenizer_buffer' = "allocated"
    /\ builds' = [builds EXCEPT !["tokenizer"] = Bump(@)]
    /\ tokenizer' = "built"
    /\ acquired' = acquired \o <<"tokenizer_buffer", "tokenizer">>
    /\ pc' = "load_sampler"
    /\ UNCHANGED <<released, clampedIn,
                   suspended, isrRegistered, leds, transformer, sampler,
                   llama_model_buffer, steps, seq_len, group_size, files,
                   fatalReported, genActive, nGenCalls, genArgs, nGen,
                   edgeLog>>

\* llama_tokenizer_buffer = new ...; build_tokenizer(&tokenizer, ...);
LoadTokenizer ==
    /\ Running("load_tokenizer")
    /\ llama_tokenizer_buffer' = "allocated"
    /\ builds' = [builds EXCEPT !["tokenizer"] = Bump(@)]
    /\ IF build_tokenizer(tokenizerOk) = "built"
       THEN /\ tokenizer' = "built"
            /\ acquired' = acquired \o <<"tokenizer_buffer", "tokenizer">>
            /\ pc' = "load_sampler"
            /\ UNCHANGED fatalReported
       ELSE /\ fatalReported' = TRUE
            /\ acquired' = Append(acquired, "tokenizer_buffer")
            /\ pc' = "halted"
            /\ UNCHANGED tokenizer
    /\ UNCHANGED <<released, clampedIn,
                   suspended, isrRegistered, leds, transformer, sampler,
                   llama_model_buffer, steps, seq_len, group_size, files,
                   genActive, nGenCalls, genArgs, nGen, edgeLog>>

\* build_sampler(&sampler, vocab_size, kTemperature, kTopP, rng_seed);
\* LoadLlamaModel returns and the main loop is entered.
LoadSampler ==
    /\ Running("load_sampler")
    /\ sampler' = "built"
    /\ acquired' = Append(acquired, "sampler")
    /\ builds' = [builds EXCEPT !["sampler"] = Bump(@)]
    /\ pc' = "idle_led_status"
    /\ UNCHANGED <<released, clampedIn,
                   suspended, isrRegistered, leds, transformer, tokenizer,
                   llama_model_buffer, llama_tokenizer_buffer, steps,
                   seq_len, group_size, files, fatalReported, genActive,
                   nGenCalls, genArgs, nGen, edgeLog>>

\* LedSet(Led::kStatus, false);  (loop head)
IdleLedStatus ==
    /\ Running("idle_led_status")
    /\ ledStatus' = FALSE
    /\ pc' = "idle_led_user"
    /\ UNCHANGED <<audit, suspended, isrRegistered, ledUser, engine, files,
                   fatalReported, genActive, history>>

\* LedSet(Led::kUser, true);  (loop head)
IdleLedUser ==
    /\ Running("idle_led_user")
    /\ ledUser' = TRUE
    /\ pc' = "suspend"
    /\ UNCHANGED <<audit, suspended, isrRegistered, ledStatus, engine, files,
                   fatalReported, genActive, history>>

\* (mutant) the loop does not park: vTaskSuspend is missing.
Park_NoSuspend ==
    /\ Running("suspend")
    /\ pc' = "gen_led_status"
    /\ nGen' = Bump(nGen)
    /\ UNCHANGED <<audit, suspended, isrRegistered, leds, engine, files,
                   fatalReported, genActive, builds, nGenCalls, genArgs,
                   edgeLog>>

\* (mutant) a latching wait: an edge accepted since the last resume is
\* remembered and makes the wait return at once.
Park_Latched ==
    /\ Running("suspend")
    /\ pc' = "gen_led_status"
    /\ IF \E i \in 1..Len(edgeLog) : edgeLog[i].cycle = nGen
       THEN /\ nGen' = Bump(nGen)
            /\ UNCHANGED suspended
       ELSE /\ suspended' = TRUE
            /\ UNCHANGED nGen
    /\ UNCHANGED <<audit, isrRegistered, leds, engine, files, fatalReported,
                   genActive, builds, nGenCalls, genArgs, edgeLog>>

\* vTaskSuspend(nullptr): the task goes onto the suspended list; it will
\* continue at the statement after the call.
Park ==
    /\ Running("suspend")
    /\ suspended' = TRUE
    /\ pc' = "gen_led_status"
    /\ UNCHANGED <<audit, isrRegistered, leds, engine, files, fatalReported,
                   genActive, history>>

\* The history record of an edge accepted in the current state.
Edge ==
    [phase |-> Phase, cycle |-> nGen, active |-> genActive,
     ready |-> (ledUser /\ ~ledStatus)]

\* (mutant) the callback resumes nothing (a stale task handle).
ButtonISR_Lost ==
    /\ isrRegistered
    /\ Len(edgeLog) < MaxEdges
    /\ edgeLog' = Append(edgeLog, Edge)
    /\ UNCHANGED <<audit, pc, suspended, isrRegistered, leds, engine, files,
                   fatalReported, genActive, builds, nGenCalls, genArgs,
                   nGen>>

\* (mutant) the callback tells the story itself, in interrupt context.
ButtonISR_TellsStory ==
    /\ isrRegistered
    /\ Len(edgeLog) < MaxEdges
    /\ edgeLog' = Append(edgeLog, Edge)
    /\ transformer = "built" /\ tokenizer = "built" /\ sampler = "built"
    /\ genActive' = Bump(genActive)
    /\ nGenCalls' = Bump(nGenCalls)
    /\ genArgs' = genArgs \cup {steps}
    /\ UNCHANGED <<audit, pc, suspended, isrRegistered, leds, engine, files,
                   fatalReported, builds, nGen>>

\* (mutant) the callback also drives the busy indicator.
ButtonISR_WritesLed ==
    /\ isrRegistered
    /\ Len(edgeLog) < MaxEdges
    /\ edgeLog' = Append(edgeLog, Edge)
    /\ ledStatus' = TRUE
    /\ IF suspended
       THEN /\ suspended' = FALSE
            /\ nGen' = Bump(nGen)
       ELSE UNCHANGED <<suspended, nGen>>
    /\ UNCHANGED <<audit, pc, isrRegistered, ledUser, engine, files,
                   fatalReported, genActive, builds, nGenCalls, genArgs>>

\* An accepted falling edge: [handle] { xTaskResumeFromISR(handle); }
\* The task is made ready if it is suspended; otherwise nothing happens.
ButtonISR ==
    /\ isrRegistered
    /\ Len(edgeLog) < MaxEdges
    /\ edgeLog' = Append(edgeLog, Edge)
    /\ IF suspended
       THEN /\ suspended' = FALSE
            /\ nGen' = Bump(nGen)
       ELSE UNCHANGED <<suspended, nGen>>
    /\ UNCHANGED <<audit, pc, isrRegistered, leds, engine, files, fatalReported,
                   genActive, builds, nGenCalls, genArgs>>

\* (mutant) the busy indicator is not asserted when a cycle starts.
GenLedStatus_Skipped ==
    /\ Running("gen_led_status")
    /\ pc' = "gen_led_user"
    /\ UNCHANGED <<audit, suspended, isrRegistered, leds, engine, files,
                   fatalReported, genActive, history>>

\* LedSet(Led::kStatus, true);  (after the resume)
GenLedStatus ==
    /\ Running("gen_led_status")
    /\ ledStatus' = TRUE
    /\ pc' = "gen_led_user"
    /\ UNCHANGED <<audit, suspended, isrRegistered, ledUser, engine, files,
                   fatalReported, genActive, history>>

\* LedSet(Led::kUser, false);  (after the resume)
GenLedUser ==
    /\ Running("gen_led_user")
    /\ ledUser' = FALSE
    /\ pc' = "tellstory"
    /\ UNCHANGED <<audit, suspended, isrRegistered, ledStatus, engine, files,
                   fatalReported, genActive, history>>

\* (mutant) the budget is clamped again on the way into every generate.
TellStory_Reclamps ==
    /\ Running("tellstory")
    /\ steps' = ResolveSteps(steps, seq_len)
    /\ clampedIn' = clampedIn \cup {nGen}
    /\ genActive' = Bump(genActive)
    /\ nGenCalls' = Bump(nGenCalls)
    /\ genArgs' = genArgs \cup {steps'}
    /\ pc' = "generate"
    /\ UNCHANGED <<acquired, released, suspended, isrRegistered, leds,
                   transformer, tokenizer, sampler, llama_model_buffer,
                   llama_tokenizer_buffer, seq_len, group_size, files,
                   fatalReported, builds, nGen, edgeLog>>

\* TellStory(kPrompt): generate(&transformer, &tokenizer, &sampler,
\*                              prompt.c_str(), steps, group_size, &tokens_s)
\* is entered.
TellStory ==
    /\ Running("tellstory")
    /\ genActive' = Bump(genActive)
    /\ nGenCalls' = Bump(nGenCalls)
    /\ genArgs' = genArgs \cup {steps}
    /\ pc' = "generate"
    /\ UNCHANGED <<audit, suspended, isrRegistered, leds, engine, files,
                   fatalReported, builds, nGen, edgeLog>>

\* (mutant) the load sits inside the loop: after a story the model is
\* loaded again.
GenerateReturn_Reloads ==
    /\ Running("generate")
    /\ genActive' = genActive - 1
    /\ pc' = "load_transformer"
    /\ UNCHANGED <<audit, suspended, isrRegistered, leds, engine, files,
                   fatalReported, history>>

\* (mutant) the loop ends after a story and control falls through to
\* UnloadLlamaModel.
GenerateReturn_LeavesLoop ==
    /\ Running("generate")
    /\ genActive' = genActive - 1
    /\ pc' = "free_sampler"
    /\ UNCHANGED <<audit, suspended, isrRegistered, leds, engine, files,
                   fatalReported, history>>

\* generate returns, TellStory prints the throughput and returns, and the
\* while (true) loop goes back to its head.
GenerateReturn ==
    /\ Running("generate")
    /\ genActive' = genActive - 1
    /\ pc' = "idle_led_status"
    /\ UNCHANGED <<audit, suspended, isrRegistered, leds, engine, files,
                   fatalReported, history>>

\* The statements of LoadLlamaModel.
LoadLlamaModel ==
    \/ LoadTransformer
    \/ ClampSteps
    \/ LoadTokenizer
    \/ LoadSampler

\* The steps of the app_main task.
app_main ==
    \/ ConfigureInterrupt
    \/ InitLedStatus
    \/ InitLedUser
    \/ LoadLlamaModel
    \/ IdleLedStatus
    \/ IdleLedUser
    \/ Park
    \/ GenLedStatus
    \/ GenLedUser
    \/ TellStory
    \/ GenerateReturn

Next == app_main \/ ButtonISR

Spec == Init /\ [][Next]_vars

\* The scheduler runs the task whenever it is ready, and every call it
\* makes returns.  Nothing obliges the button to be pressed.
FairSpec == Spec /\ WF_vars(app_main)

\* ------------------------------------------------------- the shutdown path
\* Control reaches the statement after the loop (line 113).  The loop
\* condition is the constant true, so no step of Next does this: the
\* shutdown path is taken in TeardownSpec only, from the loop head.
Shutdown ==
    /\ Running("idle_led_status")
    /\ pc' = "free_sampler"
    /\ UNCHANGED <<audit, suspended, isrRegistered, leds, engine, files,
                   fatalReported, genActive, history>>

\* free_sampler(&sampler);
FreeSampler ==
    /\ Running("free_sampler")
    /\ sampler' = "freed"
    /\ released' = Append(released, "sampler")
    /\ pc' = "free_tokenizer"
    /\ UNCHANGED <<acquired, clampedIn, suspended, isrRegistered, leds,
                   transformer, tokenizer, llama_model_buffer,
                   llama_tokenizer_buffer, steps, seq_len, group_size, files,
                   fatalReported, genActive, history>>

\* (mutant) free_tokenizer is forgotten.
FreeTokenizer_Forgotten ==
    /\ Running("free_tokenizer")
    /\ pc' = "free_transformer"
    /\ UNCHANGED <<audit, suspended, isrRegistered, leds, engine, files,
                   fatalReported, genActive, history>>

\* free_tokenizer(&tokenizer);
FreeTokenizer ==
    /\ Running("free_tokenizer")
    /\ tokenizer' = "freed"
    /\ released' = Append(released, "tokenizer")
    /\ pc' = "free_transformer"
    /\ UNCHANGED <<acquired, clampedIn, suspended, isrRegistered, leds,
                   transformer, sampler, llama_model_buffer,
                   llama_tokenizer_buffer, steps, seq_len, group_size, files,
                   fatalReported, genActive, history>>

\* free_transformer(&transformer);
FreeTransformer ==
    /\ Running("free_transformer")
    /\ transformer' = "freed"
    /\ released' = Append(released, "transformer")
    /\ pc' = "delete_tokenizer_buffer"
    /\ UNCHANGED <<acquired, clampedIn, suspended, isrRegistered, leds,
                   tokenizer, sampler, llama_model_buffer,
                   llama_tokenizer_buffer, steps, seq_len, group_size, files,
                   fatalReported, genActive, history>>

\* delete llama_tokenizer_buffer;
DeleteTokenizerBuffer ==
    /\ Running("delete_tokenizer_buffer")
    /\ llama_tokenizer_buffer' = "deleted"
    /\ released' = Append(released, "tokenizer_buffer")
    /\ pc' = "delete_model_buffer"
    /\ UNCHANGED <<acquired, clampedIn, suspended, isrRegistered, leds,
                   transformer, tokenizer, sampler, llama_model_buffer,
                   steps, seq_len, group_size, files, fatalReported,
                   genActive, history>>

\* delete llama_model_buffer;  UnloadLlamaModel returns.
DeleteModelBuffer ==
    /\ Running("delete_model_buffer")
    /\ llama_model_buffer' = "deleted"
    /\ released' = Append(released, "model_buffer")
    /\ pc' = "returned"
    /\ UNCHANGED <<acquired, clampedIn, suspended, isrRegistered, leds,
                   transformer, tokenizer, sampler, llama_tokenizer_buffer,
                   steps, seq_len, group_size, files, fatalReported,
                   genActive, history>>

\* The statements of UnloadLlamaModel.
UnloadLlamaModel ==
    \/ FreeSampler
    \/ FreeTokenizer
    \/ FreeTransformer
    \/ DeleteTokenizerBuffer
    \/ DeleteModelBuffer

\* The program with its shutdown path exercised.
TeardownNext == Next \/ Shutdown \/ UnloadLlamaModel

TeardownSpec == Init /\ [][TeardownNext]_vars

\* ------------------------------------------------------------- the claims

\* The edges accepted since cycle k began (the edge that started cycle k
\* was accepted while parked, with k - 1 cycles entered).
EdgesFrom(k) == {i \in 1..Len(edgeLog) : edgeLog[i].cycle >= k}

\* Since cycle k began at least one edge was accepted, and every such edge
\* was accepted inside cycle k: after the resume and before TellStory
\* returned.
MashedIn(k) ==
    /\ EdgesFrom(k) # {}
    /\ \A i \in EdgesFrom(k) :
        edgeLog[i].cycle = k /\ edgeLog[i].phase = "Generating"

\* C1: whatever number n >= 1 of edges is accepted inside one Generating
\* cycle, with no edge after it, at most one further cycle is entered.
C1_AtMostOneExtraCycle ==
    \A k \in 1..nGen : MashedIn(k) => nGen <= k + 1

\* Two edges mashed into a cycle that has completed; the task is parked.
C1_Witness ==
    /\ nGen >= 1
    /\ MashedIn(nGen)
    /\ Cardinality(EdgesFrom(nGen)) = 2
    /\ Phase = "Parked"

\* C2 as stated: after n >= 1 edges inside cycle k and none later, the
\* next park returns, so whenever the task is parked cycle k + 1 has run.
C2_ExactlyOneExtraCycle ==
    \A k \in 1..nGen : (MashedIn(k) /\ Phase = "Parked") => nGen = k + 1

\* C2 (amended): after n >= 1 edges inside cycle k and none later, no
\* further cycle runs: the resume of a task that is not suspended is
\* dropped, cycle k stays the last one and generate is called k times.
C2_NoExtraCycle ==
    \A k \in 1..nGen : MashedIn(k) => (nGen = k /\ nGenCalls <= k)

\* Three edges inside one cycle, and the task parked again after it.
C2_Witness ==
    \E k \in 1..nGen :
        /\ MashedIn(k)
        /\ Cardinality(EdgesFrom(k)) = 3
        /\ Phase = "Parked"
        /\ nGen = k
        /\ nGenCalls = k

\* Exactly one edge has been accepted, and it came while the task was
\* parked in vTaskSuspend (so the load had succeeded).
OneEdgeWhileParked == Len(edgeLog) = 1 /\ edgeLog[1].phase = "Parked"

\* The task is parked again after exactly one story, showing "ready".
ParkedAfterOneStory ==
    /\ Phase = "Parked"
    /\ ledUser /\ ~ledStatus
    /\ nGen = 1 /\ nGenCalls = 1 /\ genActive = 0

\* C3: one edge accepted while parked, and no other edge: exactly one
\* Generating cycle runs (one call of generate), and once generate has
\* returned the task is parked again with ready on and busy off.
C3_OneEdgeOneStory ==
    /\ [](OneEdgeWhileParked => (nGen = 1 /\ nGenCalls <= 1 /\ genActive <= 1))
    /\ (OneEdgeWhileParked ~> (Len(edgeLog) > 1 \/ ParkedAfterOneStory))

\* The single edge woke the parked task and the task is back in the park.
C3_Witness == OneEdgeWhileParked /\ ParkedAfterOneStory

\* C4: each engine build routine is invoked at most once in a run, and
\* exactly once by the time LoadLlamaModel has returned, whatever edges
\* are accepted and however many stories are told.
C4_BuiltOnce ==
    /\ \A c \in DOMAIN builds : builds[c] <= 1
    /\ (pc \notin InitPcs /\ pc # "halted") =>
        (\A c \in DOMAIN builds : builds[c] = 1)

\* Two stories told, with an edge accepted during the load.
C4_Witness ==
    /\ nGenCalls = 2
    /\ \E i \in 1..Len(edgeLog) : edgeLog[i].phase = "Initializing"
    /\ \A c \in DOMAIN builds : builds[c] = 1

\* C5: at most one invocation of generate is ever in progress, and an edge
\* accepted while generate is in progress starts no generate, moves the
\* task nowhere and leaves the engine state as it was.
C5_NoDoubleEntry ==
    /\ [](genActive <= 1)
    /\ [][(genActive = 1 /\ edgeLog' # edgeLog) =>
            /\ genActive' = genActive
            /\ nGenCalls' = nGenCalls
            /\ pc' = pc
            /\ engine' = engine]_vars

\* generate is in progress and an edge was accepted during this call.
C5_Witness ==
    /\ genActive = 1
    /\ pc = "generate"
    /\ \E i \in 1..Len(edgeLog) :
        edgeLog[i].active = 1 /\ edgeLog[i].cycle = nGen

\* The clamp of LoadLlamaModel has been executed.
Clamped == transformer = "built" /\ pc # "clamp_steps"

\* C6: once the clamp has run, steps is the model maximum when the
\* configured budget is 0 or exceeds the maximum, and is the configured
\* budget otherwise; a budget in 1..maximum is kept.
C6_Clamp ==
    Clamped =>
        /\ (cfgSteps = 0 \/ cfgSteps > seq_len) => steps = seq_len
        /\ (cfgSteps # 0 /\ cfgSteps <= seq_len) => steps = cfgSteps
        /\ (1 <= cfgSteps /\ cfgSteps <= seq_len) => steps = cfgSteps
        /\ (seq_len = 256 /\ cfgSteps \in {0, 1000}) => steps = 256

\* A budget of 0 against a maximum of 256 has been resolved, and used.
C6_Witness ==
    /\ Clamped
    /\ cfgSteps = 0 /\ seq_len = 256 /\ steps = 256
    /\ genArgs = {256}

C10_IndicatorOrdering ==
    /\ (pc \in LoadPcs \cup {"tellstory", "generate"}) =>
        (ledStatus /\ ~ledUser)
    /\ genActive > 0 => (ledStatus /\ ~ledUser)
    /\ (pc = "suspend" \/ Phase = "Parked") => (~ledStatus /\ ledUser)

\* The second generate call is executing.
C10_Witness == pc = "generate" /\ nGenCalls = 2 /\ ledStatus /\ ~ledUser

\* C11: generate is only invoked while the engine is Loaded: a call is in
\* progress, and a call begins, only after LoadLlamaModel has returned
\* with everything built and before anything has been released, also when
\* edges are accepted during the load.
C11_GenerateOnlyLoaded ==
    /\ [](genActive > 0 => (Loaded /\ pc \notin InitPcs /\ released = <<>>))
    /\ [][nGenCalls' # nGenCalls =>
            (Loaded /\ pc \notin InitPcs /\ released = <<>>)]_vars

\* The first edge came during the load; the first generate call runs now.
C11_Witness ==
    /\ genActive = 1 /\ nGenCalls = 1
    /\ Len(edgeLog) >= 2
    /\ edgeLog[1].phase = "Initializing"
    /\ Loaded

\* C12: the callback does one thing, it leaves the task runnable, and
\* nothing else: the task position, the indicators, the engine state and
\* its buffers, the artifacts and the calls made so far are as before.
C12_CallbackFrame ==
    [][edgeLog' # edgeLog =>
        /\ suspended' = FALSE
        /\ pc' = pc
        /\ isrRegistered' = isrRegistered
        /\ leds' = leds
        /\ engine' = engine
        /\ files' = files
        /\ fatalReported' = fatalReported
        /\ genActive' = genActive
        /\ builds' = builds /\ nGenCalls' = nGenCalls /\ genArgs' = genArgs
        /\ audit' = audit]_vars

\* The callback has just resumed the parked task: the task is runnable at
\* the statement after vTaskSuspend and the indicators still show ready.
C12_Witness ==
    /\ Len(edgeLog) = 1 /\ edgeLog[1].phase = "Parked"
    /\ pc = "gen_led_status" /\ ~suspended
    /\ nGen = 1 /\ nGenCalls = 0
    /\ ledUser /\ ~ledStatus

\* C13 as stated: in every Generating cycle the clamp runs after the
\* resume and before the cycle's generate call, so while a generate call
\* is in progress the clamp has run in the current cycle.
C13_ReclampedEachCycle == genActive > 0 => nGen \in clampedIn

\* C13 (amended): the clamp runs once, inside LoadLlamaModel and before
\* any cycle; no cycle runs it again, and every generate call is passed
\* the value resolved at load time.
C13_ClampedOnceAtLoad ==
    /\ clampedIn = IF Clamped THEN {0} ELSE {}
    /\ genActive > 0 => steps = ResolveSteps(cfgSteps, seq_len)
    /\ \A s \in genArgs : s = ResolveSteps(cfgSteps, seq_len)

\* The second generate call is in progress, two cycles after the only
\* clamp; the budget 1000 was resolved to the model maximum at load time.
C13_Witness ==
    /\ genActive = 1 /\ nGenCalls = 2 /\ nGen = 2
    /\ clampedIn = {0}
    /\ cfgSteps = 1000 /\ genArgs = {seq_len}

\* C14: once LoadLlamaModel has returned the engine is Loaded and stays
\* Loaded: the task never reaches UnloadLlamaModel, nothing is released,
\* and nothing is acquired again, whatever edges are accepted.
C14_LoadedForever ==
    /\ [](pc \notin UnloadPcs /\ released = <<>>)
    /\ []((pc \notin InitPcs /\ pc # "halted") => Loaded)
    /\ [][Loaded => (Loaded' /\ acquired' = acquired)]_vars

\* Parked again after two stories, with the five resources of the load.
C14_Witness ==
    /\ Phase = "Parked" /\ nGen = 2 /\ nGenCalls = 2
    /\ Loaded
    /\ Len(acquired) = 5 /\ released = <<>>

\* The resources by kind: the engine structures and their backing buffers.
Structures == {"transformer", "tokenizer", "sampler"}
Buffers == {"model_buffer", "tokenizer_buffer"}
Released == {released[i] : i \in 1..Len(released)}

\* C15 as stated: Unload releases in the reverse order of acquisition: no
\* resource is released before every resource acquired after it has been
\* released.
C15_ReverseOfAcquisition ==
    \A i, j \in 1..Len(acquired) :
        (i < j /\ acquired[i] \in Released) => acquired[j] \in Released

\* The order in which UnloadLlamaModel releases.
UnloadOrder ==
    <<"sampler", "tokenizer", "transformer", "tokenizer_buffer",
      "model_buffer">>

\* C15 (amended): Load acquires model buffer, transformer, tokenizer
\* buffer, tokenizer, sampler; Unload releases sampler, tokenizer,
\* transformer, tokenizer buffer, model buffer.  Structures go in reverse
\* order of construction, then buffers in reverse order of allocation,
\* and no buffer goes before a structure.
C15_UnloadOrder ==
    /\ Loaded =>
        acquired = <<"model_buffer", "transformer", "tokenizer_buffer",
                     "tokenizer", "sampler">>
    /\ Len(released) <= Len(UnloadOrder)
    /\ released = SubSeq(UnloadOrder, 1, Len(released))
    /\ pc = "returned" => released = UnloadOrder
    /\ \A i, j \in 1..Len(acquired) :
        (/\ i < j
         /\ acquired[i] \in Released
         /\ (acquired[i] \in Structures) = (acquired[j] \in Structures))
            => acquired[j] \in Released
    /\ (Released \cap Buffers # {}) => Structures \subseteq Released

\* UnloadLlamaModel has returned after one story was told.
C15_Witness ==
    /\ pc = "returned"
    /\ nGenCalls = 1
    /\ released = UnloadOrder
    /\ Len(acquired) = 5

\* C16 as stated: no press is lost while the appliance shows ready.  An
\* edge accepted in the loop with ready on and busy off (the window before
\* vTaskSuspend takes effect included) is followed by a cycle without a
\* further edge: once the task is parked, a cycle has begun since that
\* edge.
C16_NoPressLost ==
    \A i \in 1..Len(edgeLog) :
        (/\ edgeLog[i].ready
         /\ edgeLog[i].phase \in {"Idle", "Parked"}
         /\ Phase = "Parked")
            => nGen > edgeLog[i].cycle

\* The edges accepted while the task was parked, and those accepted after
\* LoadLlamaModel had returned.
ParkedEdges == {i \in 1..Len(edgeLog) : edgeLog[i].phase = "Parked"}
PostLoadEdges == {i \in 1..Len(edgeLog) : edgeLog[i].phase # "Initializing"}

\* C17: no spurious generation.  The cycles begun never outnumber the
\* edges accepted since the load completed; every cycle was begun by its
\* own edge, accepted while the task was parked after the previous cycle,
\* and no edge began two cycles; generate is called at most once a cycle.
C17_NoSpuriousCycle ==
    /\ nGen <= Cardinality(PostLoadEdges)
    /\ nGen = Cardinality(ParkedEdges)
    /\ \A k \in 1..nGen :
        Cardinality({i \in ParkedEdges : edgeLog[i].cycle = k - 1}) = 1
    /\ nGenCalls <= nGen

\* Four edges accepted after the load, two of them while parked: two
\* cycles and two stories.
C17_Witness ==
    /\ Len(edgeLog) = 4
    /\ Cardinality(PostLoadEdges) = 4
    /\ Cardinality(ParkedEdges) = 2
    /\ nGen = 2 /\ nGenCalls = 2

\* C18: an edge accepted during Initializing does nothing: the step that
\* accepts it leaves the load where it is and repeats none of it, and as
\* long as no edge has been accepted while the task was parked no cycle
\* has begun and generate has not been called.
C18_EdgeDuringLoadIgnored ==
    /\ [](ParkedEdges = {} =>
            /\ nGen = 0 /\ nGenCalls = 0 /\ genActive = 0
            /\ \A c \in DOMAIN builds : builds[c] <= 1)
    /\ [][(Phase = "Initializing" /\ edgeLog' # edgeLog) =>
            /\ pc' = pc
            /\ suspended' = suspended
            /\ engine' = engine
            /\ builds' = builds /\ acquired' = acquired
            /\ nGen' = nGen]_vars

\* Edges were accepted during the load only; the task has reached its
\* first park and waits there.
C18_Witness ==
    /\ Len(edgeLog) >= 1
    /\ \A i \in 1..Len(edgeLog) : edgeLog[i].phase = "Initializing"
    /\ Phase = "Parked" /\ nGen = 0 /\ nGenCalls = 0
    /\ Loaded

====
